---------------------------- MODULE Spec2Model ----------------------------
(***************************************************************************)
(* A model of the red-dwarf clustering core:                               *)
(*   - KMeansPolis._fit            (src/reddwarf/cluster.py)               *)
(*   - remap_vote_values, run_clustering (src/reddwarf/demdis.py)          *)
(*   - Loader.filter_duplicate_votes     (src/reddwarf/data_loader.py)     *)
(*                                                                         *)
(* Four specifications share the variables; each one drives one of the     *)
(* program's entry points and leaves the state of the others idle.         *)
(*   SpecFit    the fit loop of KMeansPolis                                *)
(*   SpecRemap  remap_vote_values, forward and back                        *)
(*   SpecLoader Loader.filter_duplicate_votes                              *)
(*   SpecPipe   run_clustering                                             *)
(***************************************************************************)
EXTENDS Integers, Sequences, FiniteSets, TLC

VARIABLES
    \* ---- KMeansPolis._fit ----
    X,                \* the points, a sequence of <<x, y>>
    init,             \* self.init / self.random_state: how a Lloyd call is seeded
    tol_centers,      \* self.tol_centers, in units of 1/Scale
    max_iter,         \* self.max_iter
    pc,               \* position of _fit: "iterating", "converged", "exhausted", "raised"
    n_iter_,          \* self.n_iter_
    old_centers,      \* local old_centers (<<>> is None)
    new_centers,      \* local new_centers (<<>> is unbound)
    labels,           \* local labels (<<>> is unbound)
    inertia,          \* local inertia (NoInertia is unbound)
    best_inertia,     \* local best_inertia (NoInertia is None)
    center_shifts,    \* local center_shifts, squared (<<>> before the first comparison)
    start_centers,    \* the centers the last Lloyd call started from
    cluster_centers_, \* self.cluster_centers_
    inertia_,         \* self.inertia_
    labels_,          \* self.labels_
    \* ---- remap_vote_values, forward and back ----
    r_votes,          \* the votes given to the forward call
    r_value_mapping,  \* its value_mapping
    r_key_mapping,    \* its key_mapping
    r_forward,        \* what the forward call returned
    r_back,           \* what the call with the inverse tables returned
    r_pc,             \* "start", "forward", "back"
    \* ---- Loader.filter_duplicate_votes ----
    votes_data,       \* self.votes_data
    l_before,         \* self.votes_data when the last call was made
    l_keep,           \* the keep argument of the last call ("" before any)
    l_raised,         \* whether the last call raised ValueError
    \* ---- run_clustering ----
    input_votes,            \* argument votes
    skip_remap,             \* argument skip_remap
    specific_cluster_count, \* argument specific_cluster_count (0 is None)
    p_pc,                   \* "start", "filtered" (after line 68), "done"
    last_vote_timestamp,    \* last_vote_timestamp
    raw_vote_matrix,        \* raw_vote_matrix
    filtered_vote_matrix,   \* filtered_vote_matrix
    cluster_labels,         \* cluster_labels, by participant
    cluster_centers,        \* cluster_centers, as the ids of the clusters it holds
    result                  \* the ClusteringResult returned (<<>> before)

fitVars == <<X, init, tol_centers, max_iter, pc, n_iter_, old_centers, new_centers,
             labels, inertia, best_inertia, center_shifts, start_centers,
             cluster_centers_, inertia_, labels_>>

remapVars == <<r_votes, r_value_mapping, r_key_mapping, r_forward, r_back, r_pc>>

loaderVars == <<votes_data, l_before, l_keep, l_raised>>

pipeVars == <<input_votes, skip_remap, specific_cluster_count, p_pc,
              last_vote_timestamp, raw_vote_matrix, filtered_vote_matrix,
              cluster_labels, cluster_centers, result>>

vars == <<fitVars, remapVars, loaderVars, pipeVars>>

-----------------------------------------------------------------------------
(* Bounds of the model *)

NumPoints == 3
MaxIter == 3
MaxVotes == 2
MaxVotesData == 3
NumParticipants == 2

(* Program constants *)

n_clusters == 2
NoInertia == -1
DEFAULT_MIN_USER_VOTE_THRESHOLD == 7
DEFAULT_MAX_CLUSTERS == 5
DEFAULT_CLUSTER_NAMES == <<"A", "B", "C", "D", "E">>
NaN == 99

-----------------------------------------------------------------------------
(* The state of an entry point that a specification does not drive *)

FitIdle ==
    /\ X = <<>> /\ init = <<>> /\ tol_centers = 0 /\ max_iter = 0
    /\ pc = "idle" /\ n_iter_ = 0
    /\ old_centers = <<>> /\ new_centers = <<>> /\ labels = <<>>
    /\ inertia = NoInertia /\ best_inertia = NoInertia
    /\ center_shifts = <<>> /\ start_centers = <<>>
    /\ cluster_centers_ = <<>> /\ inertia_ = NoInertia /\ labels_ = <<>>

RemapIdle ==
    /\ r_votes = <<>> /\ r_value_mapping = <<>> /\ r_key_mapping = <<>>
    /\ r_forward = <<>> /\ r_back = <<>> /\ r_pc = "idle"

LoaderIdle ==
    /\ votes_data = <<>> /\ l_before = <<>> /\ l_keep = "idle" /\ l_raised = FALSE

PipeIdle ==
    /\ input_votes = <<>> /\ skip_remap = FALSE /\ specific_cluster_count = 0
    /\ p_pc = "idle" /\ last_vote_timestamp = 0
    /\ raw_vote_matrix = <<>> /\ filtered_vote_matrix = <<>>
    /\ cluster_labels = <<>> /\ cluster_centers = {} /\ result = <<>>

-----------------------------------------------------------------------------
(* Arithmetic helpers.  Coordinates of centers are kept as integers in     *)
(* units of 1/Scale, Scale being a common multiple of every possible       *)
(* cluster size, so that the mean of any group of points is exact.         *)

RECURSIVE GCD(_, _)
GCD(a, b) == IF b = 0 THEN a ELSE GCD(b, a % b)

RECURSIVE LcmUpTo(_)
LcmUpTo(n) == IF n <= 1 THEN 1 ELSE LET l == LcmUpTo(n - 1) IN (l * n) \div GCD(l, n)

Scale == LcmUpTo(NumPoints)

PointSet == {<<0, 0>>, <<1, 0>>, <<0, 2>>}

Clusters == 0 .. (n_clusters - 1)

Scaled(p) == <<Scale * p[1], Scale * p[2]>>

SqDist(p, q) == (p[1] - q[1]) * (p[1] - q[1]) + (p[2] - q[2]) * (p[2] - q[2])


-----------------------------------------------------------------------------
(* One call of _kmeans_single_lloyd with max_iter=1 (cluster.py 42-44):    *)
(* seed the centers, assign every point to its nearest center, recompute   *)
(* each center as the mean of its points, then label the points against    *)
(* the recomputed centers and sum the squared distances.                   *)

\* argmin over the clusters of the distance to a center: lowest index on ties
Nearest(centers, p) ==
    CHOOSE c \in Clusters :
        /\ \A d \in Clusters :
              SqDist(Scaled(p), centers[c]) <= SqDist(Scaled(p), centers[d])
        /\ \A d \in Clusters :
              d < c => SqDist(Scaled(p), centers[c]) < SqDist(Scaled(p), centers[d])

AssignLabels(pts, centers) == [i \in 1 .. Len(pts) |-> Nearest(centers, pts[i])]

RECURSIVE SumCoord(_, _, _)
SumCoord(pts, S, k) ==
    IF S = {} THEN 0
    ELSE LET i == CHOOSE j \in S : TRUE IN pts[i][k] + SumCoord(pts, S \ {i}, k)

MeanOf(pts, S) ==
    <<(SumCoord(pts, S, 1) * Scale) \div Cardinality(S),
      (SumCoord(pts, S, 2) * Scale) \div Cardinality(S)>>

Members(lab, c) == {i \in DOMAIN lab : lab[i] = c}

EmptyClusters(lab) == {c \in Clusters : Members(lab, c) = {}}

\* A cluster left without points takes over one of the points farthest from
\* its own center; which of several equally far points is not determined.
Relocations(pts, centers, lab) ==
    LET E == EmptyClusters(lab)
        own(i) == SqDist(Scaled(pts[i]), centers[lab[i]])
    IN  {f \in [E -> 1 .. Len(pts)] :
            /\ \A c, d \in E : c # d => f[c] # f[d]
            /\ \A c \in E : \A j \in 1 .. Len(pts) :
                  (\A d \in E : f[d] # j) => own(j) <= own(f[c])}

RecomputeCenters(pts, lab, f) ==
    [c \in Clusters |->
        IF c \in DOMAIN f THEN Scaled(pts[f[c]])
        ELSE MeanOf(pts, Members(lab, c) \ {f[d] : d \in DOMAIN f})]

RECURSIVE SumSqDist(_, _, _, _)
SumSqDist(pts, centers, lab, n) ==
    IF n = 0 THEN 0
    ELSE SqDist(Scaled(pts[n]), centers[lab[n]]) + SumSqDist(pts, centers, lab, n - 1)

\* sum of squared distances of the points to the centers of their labels
Inertia(pts, centers, lab) == SumSqDist(pts, centers, lab, Len(pts))

KMeansSingleLloyd(pts, centers_init) ==
    LET lab0 == AssignLabels(pts, centers_init)
    IN  {LET cn == RecomputeCenters(pts, lab0, f)
             lab == AssignLabels(pts, cn)
         IN  [labels |-> lab, centers |-> cn, inertia |-> Inertia(pts, cn, lab)]
         : f \in Relocations(pts, centers_init, lab0)}

\* k-means++ seeding: every center is a data point, and a point that
\* coincides with a center already drawn is drawn only when all points do
KppSeeds(pts) ==
    {s \in [Clusters -> 1 .. Len(pts)] :
        \A c \in Clusters : c > 0 =>
            LET fresh(j) == \A d \in 0 .. (c - 1) : pts[j] # pts[s[d]]
            IN  fresh(s[c]) \/ \A j \in 1 .. Len(pts) : ~fresh(j)}

\* The centers a Lloyd call starts from: the arguments of the call are
\* self.init and self.random_state, the same at every iteration.
LloydSeeds(pts, ini) ==
    IF ini.mode = "array" THEN {ini.centers}
    ELSE {[c \in Clusters |-> Scaled(pts[s[c]])] : s \in KppSeeds(pts)}

-----------------------------------------------------------------------------
(* remap_vote_values (demdis.py 23-42).  A vote record is a Python dict,   *)
(* kept as the sequence of its <<key, value>> items in insertion order; a  *)
(* mapping table is a function from its keys.                              *)

DictHas(d, k) == \E i \in DOMAIN d : d[i][1] = k

DictGet(d, k) == d[CHOOSE i \in DOMAIN d : d[i][1] = k][2]

\* d[k] = v: a key already present keeps its place and takes the new value
DictSet(d, k, v) ==
    IF DictHas(d, k)
    THEN [i \in DOMAIN d |-> IF d[i][1] = k THEN <<k, v>> ELSE d[i]]
    ELSE Append(d, <<k, v>>)

\* mapping.get(k, k)
MapGet(m, k) == IF k \in DOMAIN m THEN m[k] ELSE k

\* lines 24-31: { key_mapping.get(k, k): val for k, val in vote.items() }
RECURSIVE RekeyItems(_, _, _)
RekeyItems(vote, key_mapping, n) ==
    IF n = 0 THEN <<>>
    ELSE DictSet(RekeyItems(vote, key_mapping, n - 1),
                 MapGet(key_mapping, vote[n][1]), vote[n][2])

Rekey(vote, key_mapping) == RekeyItems(vote, key_mapping, Len(vote))

\* a slip that drops the default, value_mapping.get(val): a value that is no
\* key of the table becomes None (here -1000)
RemapValuesNoDefault(vote, value_mapping) ==
    [i \in DOMAIN vote |->
        <<vote[i][1],
          IF vote[i][1] # "vote" THEN vote[i][2]
          ELSE IF vote[i][2] \in DOMAIN value_mapping THEN value_mapping[vote[i][2]]
          ELSE -1000>>]

\* lines 33-40: the value mapping is applied to the "vote" item alone
RemapValues(vote, value_mapping) ==
    [i \in DOMAIN vote |->
        <<vote[i][1],
          IF vote[i][1] = "vote" THEN MapGet(value_mapping, vote[i][2]) ELSE vote[i][2]>>]

remap_vote_values(votes, value_mapping, key_mapping) ==
    [i \in DOMAIN votes |-> RemapValues(Rekey(votes[i], key_mapping), value_mapping)]

\* the inverse of an injective table
InverseTable(m) ==
    [y \in {m[x] : x \in DOMAIN m} |-> CHOOSE x \in DOMAIN m : m[x] = y]

TableRange(m) == {m[x] : x \in DOMAIN m}

\* the invertible tables over a set: injective functions on a part of it
InvertibleTables(S) ==
    UNION {{m \in [D -> S] : \A x, y \in D : x # y => m[x] # m[y]} : D \in SUBSET S}

RemapKeys == {"vote", "value"}
RemapValueSet == {0, 1}

\* the dicts over RemapKeys, in every insertion order
RemapRecords ==
    UNION {{d \in [1 .. n -> RemapKeys \X RemapValueSet] :
                \A i, j \in 1 .. n : i # j => d[i][1] # d[j][1]}
           : n \in 0 .. Cardinality(RemapKeys)}

InitRemap ==
    /\ r_votes \in UNION {[1 .. n -> RemapRecords] : n \in 0 .. MaxVotes}
    /\ r_value_mapping \in InvertibleTables(RemapValueSet)
    /\ r_key_mapping \in InvertibleTables(RemapKeys)
    /\ r_forward = <<>>
    /\ r_back = <<>>
    /\ r_pc = "start"
    /\ FitIdle
    /\ LoaderIdle
    /\ PipeIdle

RemapForward ==
    /\ r_pc = "start"
    /\ r_forward' = remap_vote_values(r_votes, r_value_mapping, r_key_mapping)
    /\ r_pc' = "forward"
    /\ UNCHANGED <<r_votes, r_value_mapping, r_key_mapping, r_back>>
    /\ UNCHANGED <<fitVars, loaderVars, pipeVars>>

RemapBack ==
    /\ r_pc = "forward"
    /\ r_back' = remap_vote_values(r_forward, InverseTable(r_value_mapping),
                                   InverseTable(r_key_mapping))
    /\ r_pc' = "back"
    /\ UNCHANGED <<r_votes, r_value_mapping, r_key_mapping, r_forward>>
    /\ UNCHANGED <<fitVars, loaderVars, pipeVars>>

NextRemap == RemapForward \/ RemapBack

SpecRemap == InitRemap /\ [][NextRemap]_vars


-----------------------------------------------------------------------------
(* Loader.filter_duplicate_votes (data_loader.py 135-154) *)

LoaderRecords ==
    [participant_id : {0, 1}, statement_id : {0, 1}, vote : {-1, 1}, modified : {1000, 2000}]

\* a slip that swaps the two sort orders
ReverseSortSwapped(keep) == keep = "first"

\* lines 140-143
ReverseSort(keep) == keep = "recent"

\* sorted() is stable, also with reverse=True: v goes behind every record
\* that sorts before it or ties with it
InsertSorted(sorted, v, reverse) ==
    LET before(e) == IF reverse THEN e.modified >= v.modified
                     ELSE e.modified <= v.modified
        n == Cardinality({i \in DOMAIN sorted : before(sorted[i])})
    IN  SubSeq(sorted, 1, n) \o <<v>> \o SubSeq(sorted, n + 1, Len(sorted))

\* line 144: sorted(self.votes_data, key=lambda x: x["modified"], reverse=...)
RECURSIVE SortedVotes(_, _, _)
SortedVotes(votes, reverse, n) ==
    IF n = 0 THEN <<>>
    ELSE InsertSorted(SortedVotes(votes, reverse, n - 1), votes[n], reverse)

VoteKey(v) == <<v.participant_id, v.statement_id>>

\* lines 146-154: the first record of every key, in the order of the keys'
\* first appearance
RECURSIVE FirstOfEachKey(_, _)
FirstOfEachKey(sorted, n) ==
    IF n = 0 THEN <<>>
    ELSE LET kept == FirstOfEachKey(sorted, n - 1)
         IN  IF \E i \in DOMAIN kept : VoteKey(kept[i]) = VoteKey(sorted[n])
             THEN kept
             ELSE Append(kept, sorted[n])

FilteredVotes(votes, keep) ==
    LET sorted_votes == SortedVotes(votes, ReverseSort(keep), Len(votes))
    IN  FirstOfEachKey(sorted_votes, Len(sorted_votes))

\* the state after the votes were loaded (line 133 or 183)
InitLoader ==
    /\ votes_data \in UNION {[1 .. n -> LoaderRecords] : n \in 0 .. MaxVotesData}
    /\ l_before = <<>>
    /\ l_keep = ""
    /\ l_raised = FALSE
    /\ FitIdle
    /\ RemapIdle
    /\ PipeIdle

FilterDuplicateVotes(keep) ==
    /\ l_keep # "idle"
    /\ l_before' = votes_data
    /\ l_keep' = keep
    /\ IF keep \notin {"recent", "first"}
       THEN /\ l_raised' = TRUE
            /\ UNCHANGED votes_data
       ELSE /\ l_raised' = FALSE
            /\ votes_data' = FilteredVotes(votes_data, keep)
    /\ UNCHANGED <<fitVars, remapVars, pipeVars>>

\* filter_duplicate_votes() and the call of load_remote_export_data, line 94
FilterRecent == FilterDuplicateVotes("recent")

FilterFirst == FilterDuplicateVotes("first")

FilterInvalid == FilterDuplicateVotes("last")

NextLoader == FilterRecent \/ FilterFirst \/ FilterInvalid

SpecLoader == InitLoader /\ [][NextLoader]_vars


-----------------------------------------------------------------------------
(* run_clustering (demdis.py 45-154).  The helpers of reddwarf.utils are   *)
(* modelled from the specification: the matrix builder and the matrix      *)
(* filter by their contracts, the projection as a function of a            *)
(* participant's row, and the k-means run by the labels it may return.     *)
(* Coordinates are not modelled.                                           *)

\* the members of the DemDis VoteValueEnum, encoded as numbers outside the
\* canonical -1, 0, 1
DemDisVoteValueEnum == [AGREE |-> 11, SKIP |-> 10, DISAGREE |-> 9]

\* lines 12-15
DEMDIS_VOTE_KEY_MAPPING ==
    [k \in {"voted_by_participant_id", "value"} |->
        IF k = "value" THEN "vote" ELSE "participant_id"]

\* lines 17-21
DEMDIS_VOTE_VALUE_MAPPING ==
    (DemDisVoteValueEnum.AGREE :> 1) @@ (DemDisVoteValueEnum.SKIP :> 0)
        @@ (DemDisVoteValueEnum.DISAGREE :> -1)

\* a slip that keeps the timestamp of the last record instead of the greatest
LastTimestampSeen(vs, n) ==
    IF n = 0 THEN 0 ELSE DictGet(vs[n], "modified")

\* lines 56-59
RECURSIVE LastVoteTimestamp(_, _)
LastVoteTimestamp(vs, n) ==
    IF n = 0 THEN 0
    ELSE LET so_far == LastVoteTimestamp(vs, n - 1)
         IN  IF DictGet(vs[n], "modified") > so_far
             THEN DictGet(vs[n], "modified")
             ELSE so_far

\* datetime.fromtimestamp(ms / 1000): <<seconds, microseconds>> since the epoch
FromTimestamp(ms) == <<ms \div 1000, (ms % 1000) * 1000>>

\* utils.generate_raw_matrix: one row per participant, one column per
\* statement, the last record of a pair wins, a pair without record is NaN
GenerateRawMatrix(vs) ==
    LET index == {DictGet(vs[i], "participant_id") : i \in DOMAIN vs}
        columns == {DictGet(vs[i], "statement_id") : i \in DOMAIN vs}
        of(pid, sid) == {i \in DOMAIN vs : /\ DictGet(vs[i], "participant_id") = pid
                                           /\ DictGet(vs[i], "statement_id") = sid}
    IN  [index |-> index, columns |-> columns,
         cell |-> [c \in index \X columns |->
                     IF of(c[1], c[2]) = {} THEN NaN
                     ELSE LET last == CHOOSE i \in of(c[1], c[2]) :
                                         \A j \in of(c[1], c[2]) : j <= i
                          IN  DictGet(vs[last], "vote")]]

VotesOfRow(m, pid) == Cardinality({sid \in m.columns : m.cell[<<pid, sid>>] # NaN})

\* utils.filter_matrix: the rows with at least the threshold of votes, every column
FilterMatrix(m, min_user_vote_threshold) ==
    LET kept == {pid \in m.index : VotesOfRow(m, pid) >= min_user_vote_threshold}
    IN  [index |-> kept, columns |-> m.columns,
         cell |-> [c \in kept \X m.columns |-> m.cell[c]]]

\* raw_vote_matrix.count().sum()
CountVotes(m) == Cardinality({c \in m.index \X m.columns : m.cell[c] # NaN})

\* utils.run_pca and utils.scale_projected_data: the point of a participant
\* is a function of the participant's row
RowOf(m, pid) == [sid \in m.columns |-> m.cell[<<pid, sid>>]]

\* utils.run_kmeans, utils.find_optimal_k: the labels of a run with k
\* clusters.  Participants with the same point get the same label, and as
\* many clusters get participants as there are distinct points, up to k.
KMeansLabels(m, k) ==
    LET points == {RowOf(m, pid) : pid \in m.index}
        used == IF Cardinality(points) < k THEN Cardinality(points) ELSE k
    IN  {lab \in [m.index -> 0 .. (k - 1)] :
            /\ \A a, b \in m.index : RowOf(m, a) = RowOf(m, b) => lab[a] = lab[b]
            /\ Cardinality({lab[pid] : pid \in m.index}) = used}

\* the elements of a set of numbers, ascending
RECURSIVE SortedSeq(_)
SortedSeq(S) ==
    IF S = {} THEN <<>>
    ELSE LET least == CHOOSE x \in S : \A y \in S : x <= y
         IN  <<least>> \o SortedSeq(S \ {least})

\* a slip that counts the unseen votes of the whole frame, not of the group
CountUnseenOfFrame(m, group, sid) ==
    Cardinality({pid \in m.index : m.cell[<<pid, sid>>] = NaN})

\* int(group_df[statement_id].isna().sum())
CountUnseen(m, group, sid) == Cardinality({pid \in group : m.cell[<<pid, sid>>] = NaN})

CountValue(m, group, sid, v) == Cardinality({pid \in group : m.cell[<<pid, sid>>] = v})

\* lines 97-132: one entry per group of df.groupby("cluster_id")
BuildCenters(m, lab) ==
    LET ids == SortedSeq({lab[pid] : pid \in m.index})
        sids == SortedSeq(m.columns)
    IN  [g \in DOMAIN ids |->
            LET cluster_id == ids[g]
                group == {pid \in m.index : lab[pid] = cluster_id}
            IN  [name |-> DEFAULT_CLUSTER_NAMES[cluster_id + 1],
                 participant_count |-> Cardinality(group),
                 statements |->
                    [x \in DOMAIN sids |->
                        [statement_id |-> sids[x],
                         cluster_center_name |-> DEFAULT_CLUSTER_NAMES[cluster_id + 1],
                         agreement_count |-> CountValue(m, group, sids[x], 1),
                         disagreement_count |-> CountValue(m, group, sids[x], -1),
                         skip_count |-> CountValue(m, group, sids[x], 0),
                         unseen_count |-> CountUnseen(m, group, sids[x]),
                         agreement_percentage |->
                            <<CountValue(m, group, sids[x], 1) * 100, Cardinality(group)>>]]]]

\* lines 134-152
ClusteringResult(last, raw, filtered, lab) ==
    [participant_count |-> Cardinality(raw.index),
     participants_clustered |-> Cardinality(filtered.index),
     vote_count |-> CountVotes(raw),
     statement_count |-> Cardinality(raw.columns),
     last_vote_at |-> FromTimestamp(last),
     statement_metrics |-> [x \in DOMAIN SortedSeq(filtered.columns) |->
                              [statement_id |-> SortedSeq(filtered.columns)[x]]],
     centers |-> BuildCenters(filtered, lab)]

\* ---- the inputs ----

Statements == 1 .. (DEFAULT_MIN_USER_VOTE_THRESHOLD + 1)

\* a participant's ballot: votes on statements 1..n, cycling through agree,
\* disagree and skip, cast from time t on
Ballots ==
    [n : {0, DEFAULT_MIN_USER_VOTE_THRESHOLD - 1, DEFAULT_MIN_USER_VOTE_THRESHOLD,
          DEFAULT_MIN_USER_VOTE_THRESHOLD + 1},
     t : {1500, 3000}]

BallotVote(b, sid) == ((sid + 1) % 3) - 1

\* the canonical record of a vote
CanonicalVote(pid, sid, v, t) ==
    <<<<"participant_id", pid>>, <<"statement_id", sid>>, <<"vote", v>>, <<"modified", t>>>>

\* the DemDis record of a vote
DemDisVote(pid, sid, v, t) ==
    <<<<"voted_by_participant_id", pid>>, <<"statement_id", sid>>,
      <<"value", CHOOSE e \in DOMAIN DEMDIS_VOTE_VALUE_MAPPING :
                    DEMDIS_VOTE_VALUE_MAPPING[e] = v>>,
      <<"modified", t>>>>

RECURSIVE BallotVotes(_, _, _)
BallotVotes(bs, pid, raw) ==
    IF pid = 0 THEN <<>>
    ELSE BallotVotes(bs, pid - 1, raw) \o
         [sid \in 1 .. bs[pid].n |->
            IF raw THEN DemDisVote(pid, sid, BallotVote(bs[pid], sid), bs[pid].t + sid)
            ELSE CanonicalVote(pid, sid, BallotVote(bs[pid], sid), bs[pid].t + sid)]

InitPipe ==
    /\ skip_remap \in BOOLEAN
    /\ \E raw \in BOOLEAN : \E bs \in [1 .. NumParticipants -> Ballots] :
          /\ skip_remap => ~raw
          /\ input_votes = BallotVotes(bs, NumParticipants, raw)
    /\ specific_cluster_count \in {0, 2, 3}
    /\ p_pc = "start"
    /\ last_vote_timestamp = 0
    /\ raw_vote_matrix = <<>>
    /\ filtered_vote_matrix = <<>>
    /\ cluster_labels = <<>>
    /\ cluster_centers = {}
    /\ result = <<>>
    /\ FitIdle
    /\ RemapIdle
    /\ LoaderIdle

\* lines 53-68: remap, the last timestamp, the raw and the filtered matrix
BuildMatrices ==
    /\ p_pc = "start"
    /\ LET vs == IF skip_remap THEN input_votes
                 ELSE remap_vote_values(input_votes, DEMDIS_VOTE_VALUE_MAPPING,
                                        DEMDIS_VOTE_KEY_MAPPING)
           raw == GenerateRawMatrix(vs)
       IN  /\ last_vote_timestamp' = LastVoteTimestamp(vs, Len(vs))
           /\ raw_vote_matrix' = raw
           /\ filtered_vote_matrix' = FilterMatrix(raw, DEFAULT_MIN_USER_VOTE_THRESHOLD)
    /\ p_pc' = "filtered"
    /\ UNCHANGED <<input_votes, skip_remap, specific_cluster_count, cluster_labels,
                   cluster_centers, result>>
    /\ UNCHANGED <<fitVars, remapVars, loaderVars>>

\* lines 70-154 with k clusters: projection, k-means, the result
ClusterAndAssemble(k) ==
    /\ p_pc = "filtered"
    /\ \E lab \in KMeansLabels(filtered_vote_matrix, k) :
          /\ cluster_labels' = lab
          /\ cluster_centers' = 0 .. (k - 1)
          /\ result' = ClusteringResult(last_vote_timestamp, raw_vote_matrix,
                                        filtered_vote_matrix, lab)
    /\ p_pc' = "done"
    /\ UNCHANGED <<input_votes, skip_remap, specific_cluster_count, last_vote_timestamp,
                   raw_vote_matrix, filtered_vote_matrix>>
    /\ UNCHANGED <<fitVars, remapVars, loaderVars>>

\* lines 78-83: the caller fixed the number of clusters
RunWithClusterCount ==
    /\ specific_cluster_count # 0
    /\ ClusterAndAssemble(specific_cluster_count)

\* lines 84-89: the number of clusters is searched for
RunWithOptimalK ==
    /\ specific_cluster_count = 0
    /\ \E k \in 2 .. DEFAULT_MAX_CLUSTERS : ClusterAndAssemble(k)

NextPipe == BuildMatrices \/ RunWithClusterCount \/ RunWithOptimalK

SpecPipe == InitPipe /\ [][NextPipe]_vars


-----------------------------------------------------------------------------
(* KMeansPolis._fit *)

\* a slip that forgets the subtraction: np.linalg.norm(new_centers, axis=1)
CenterNorms(new, old) == [c \in Clusters |-> SqDist(new[c], <<0, 0>>)]

\* np.linalg.norm(new_centers - old_centers, axis=1), squared
CenterShifts(new, old) == [c \in Clusters |-> SqDist(new[c], old[c])]

\* a slip that stops on a shift equal to the tolerance
AllWithinTol(shifts, tol) == tol >= 0 /\ \A c \in Clusters : shifts[c] <= tol * tol

\* np.all(center_shifts < self.tol_centers), on the squares
AllBelowTol(shifts, tol) == tol > 0 /\ \A c \in Clusters : shifts[c] < tol * tol

\* self.inertia_ = best_inertia
StoredInertia(best, last) == best

InitFit ==
    /\ X \in [1 .. NumPoints -> PointSet]
    /\ init \in {[mode |-> "k-means++", centers |-> <<>>]}
          \cup {[mode |-> "array", centers |-> c] :
                    c \in [Clusters -> {Scaled(p) : p \in PointSet}]}
    /\ tol_centers \in {0, 1, Scale, 2 * Scale}
    /\ max_iter \in 0 .. MaxIter
    /\ pc = "iterating"
    /\ n_iter_ = 0
    /\ old_centers = <<>>
    /\ new_centers = <<>>
    /\ labels = <<>>
    /\ inertia = NoInertia
    /\ best_inertia = NoInertia
    /\ center_shifts = <<>>
    /\ start_centers = <<>>
    /\ cluster_centers_ = <<>>
    /\ inertia_ = NoInertia
    /\ labels_ = <<>>
    /\ RemapIdle
    /\ LoaderIdle
    /\ PipeIdle

\* one pass of the loop body, lines 39-53, and lines 56-59 after a break
FitIterate ==
    /\ pc = "iterating"
    /\ n_iter_ < max_iter
    /\ \E seed \in LloydSeeds(X, init) :
       \E r \in KMeansSingleLloyd(X, seed) :
          LET compared == old_centers # <<>>
              shifts == IF compared THEN CenterShifts(r.centers, old_centers)
                        ELSE center_shifts
              stop == compared /\ AllBelowTol(shifts, tol_centers)
          IN  /\ n_iter_' = n_iter_ + 1
              /\ start_centers' = seed
              /\ labels' = r.labels
              /\ new_centers' = r.centers
              /\ inertia' = r.inertia
              /\ center_shifts' = shifts
              /\ IF stop
                 THEN /\ pc' = "converged"
                      /\ UNCHANGED <<old_centers, best_inertia>>
                      /\ cluster_centers_' = r.centers
                      /\ inertia_' = StoredInertia(best_inertia, r.inertia)
                      /\ labels_' = r.labels
                 ELSE /\ pc' = "iterating"
                      /\ old_centers' = r.centers
                      /\ best_inertia' = r.inertia
                      /\ UNCHANGED <<cluster_centers_, inertia_, labels_>>
    /\ UNCHANGED <<X, init, tol_centers, max_iter>>
    /\ UNCHANGED <<remapVars, loaderVars, pipeVars>>

\* the loop runs out, lines 38 and 56-59; with max_iter = 0 the locals of
\* line 56 were never bound
FitExhaust ==
    /\ pc = "iterating"
    /\ n_iter_ = max_iter
    /\ IF max_iter = 0
       THEN /\ pc' = "raised"
            /\ UNCHANGED <<cluster_centers_, inertia_, labels_>>
       ELSE /\ pc' = "exhausted"
            /\ cluster_centers_' = new_centers
            /\ inertia_' = StoredInertia(best_inertia, inertia)
            /\ labels_' = labels
    /\ UNCHANGED <<X, init, tol_centers, max_iter, n_iter_, old_centers, new_centers,
                   labels, inertia, best_inertia, center_shifts, start_centers>>
    /\ UNCHANGED <<remapVars, loaderVars, pipeVars>>

NextFit == FitIterate \/ FitExhaust

SpecFit == InitFit /\ [][NextFit]_vars


-----------------------------------------------------------------------------
(* Properties of KMeansPolis._fit, checked under SpecFit *)

Terminal == pc \in {"converged", "exhausted"}

AllPointsIdentical == \A i \in 1 .. Len(X) : X[i] = X[1]

\* C1: the loop stops as "converged" exactly at the first iteration whose
\* centers all lie strictly closer than tol_centers to the centers of the
\* iteration before (a shift equal to tol_centers does not stop it), stops as
\* "exhausted" exactly when max_iter iterations have run without that, never
\* runs more than max_iter iterations, and with max_iter >= 1 does not raise.
C1_StoppingRule ==
    [][pc = "iterating" =>
        /\ (pc' = "converged") <=>
              /\ n_iter_ >= 1
              /\ n_iter_' = n_iter_ + 1
              /\ tol_centers > 0
              /\ \A c \in Clusters :
                    SqDist(new_centers'[c], new_centers[c]) < tol_centers * tol_centers
        /\ (pc' = "exhausted") <=> (n_iter_ = max_iter /\ max_iter >= 1)
        /\ pc' = "exhausted" => n_iter_' = max_iter
        /\ n_iter_' <= max_iter
        /\ max_iter >= 1 => pc' # "raised"
    ]_vars

\* C1 witness: an iteration moved a center by exactly tol_centers, no center
\* by more, and the loop went on
C1_Witness ==
    /\ pc = "iterating"
    /\ n_iter_ >= 2
    /\ tol_centers > 0
    /\ center_shifts # <<>>
    /\ \A c \in Clusters : center_shifts[c] <= tol_centers * tol_centers
    /\ \E c \in Clusters : center_shifts[c] = tol_centers * tol_centers

\* C2 as stated: with all points identical the fit ends with n_iter_ = 1 and
\* every center on that point
C2_Original ==
    (Terminal /\ AllPointsIdentical) =>
        /\ n_iter_ = 1
        /\ \A c \in Clusters : cluster_centers_[c] = Scaled(X[1])

\* C2 amended: with all points identical every returned center is that
\* point, and with max_iter >= 2 and tol_centers > 0 the fit converges at the
\* second iteration (the first has no earlier centers to compare with)
C2_IdenticalPoints ==
    (Terminal /\ AllPointsIdentical) =>
        /\ \A c \in Clusters : cluster_centers_[c] = Scaled(X[1])
        /\ (max_iter >= 2 /\ tol_centers > 0) => (pc = "converged" /\ n_iter_ = 2)
        /\ (max_iter = 1 \/ tol_centers = 0) => (pc = "exhausted" /\ n_iter_ = max_iter)

\* C2 witness: identical points, seeded away from them, converged
C2_Witness ==
    /\ pc = "converged"
    /\ AllPointsIdentical
    /\ init.mode = "array"
    /\ \A c \in Clusters : init.centers[c] # Scaled(X[1])

\* C9 as stated: every iteration after the first starts from the centers
\* the iteration before it produced
C9_Original ==
    [][(pc = "iterating" /\ n_iter_ >= 1 /\ n_iter_' = n_iter_ + 1)
          => start_centers' = new_centers]_vars

\* C10 as stated: in both terminal states the stored inertia is the sum of
\* squared distances of the points to the stored centers under the stored
\* labels, and is set
C10_Original ==
    Terminal =>
        /\ inertia_ # NoInertia
        /\ inertia_ = Inertia(X, cluster_centers_, labels_)


-----------------------------------------------------------------------------
(* Properties of remap_vote_values, checked under SpecRemap *)

\* the vote of a record: the value of the item the key mapping names "vote"
VoteOf(rec, key_mapping) ==
    LET d == Rekey(rec, key_mapping)
    IN  IF DictHas(d, "vote") THEN <<DictGet(d, "vote")>> ELSE <<>>

SameVotes(a, b, key_mapping) ==
    /\ Len(a) = Len(b)
    /\ \A i \in 1 .. Len(a) : VoteOf(a[i], key_mapping) = VoteOf(b[i], key_mapping)

\* no key is renamed to or from "vote"
KeyMappingLeavesVote(m) ==
    \A k \in DOMAIN m : (k = "vote" \/ m[k] = "vote") => (k = "vote" /\ m[k] = "vote")

\* the vote is a key of the table, or no value of the table
VoteRoundTrips(rec, m) ==
    DictHas(rec, "vote") =>
        (DictGet(rec, "vote") \in DOMAIN m \/ DictGet(rec, "vote") \notin TableRange(m))

\* C5 as stated: for every invertible value mapping and key mapping, forward
\* and then back with the inverse tables gives back every record's vote, in
\* order
C5_Original == r_pc = "back" => SameVotes(r_back, r_votes, r_key_mapping)

\* C5 amended: the round trip gives back every record's vote, in order, when
\* the key mapping leaves the "vote" key alone and no vote is a value of the
\* value mapping without being one of its keys
C5_RoundTrip ==
    (/\ r_pc = "back"
     /\ KeyMappingLeavesVote(r_key_mapping)
     /\ \A i \in 1 .. Len(r_votes) : VoteRoundTrips(r_votes[i], r_value_mapping))
        => SameVotes(r_back, r_votes, r_key_mapping)

\* C5 witness: two records with different votes, both mapped to another
\* value on the way forward, came back as they were, beside a field that is
\* not the vote and was left alone
C5_Witness ==
    /\ r_pc = "back"
    /\ KeyMappingLeavesVote(r_key_mapping)
    /\ Len(r_votes) = 2
    /\ \A i \in 1 .. 2 :
          /\ DictHas(r_votes[i], "vote")
          /\ VoteRoundTrips(r_votes[i], r_value_mapping)
          /\ DictGet(r_forward[i], "vote") # DictGet(r_votes[i], "vote")
    /\ DictGet(r_votes[1], "vote") # DictGet(r_votes[2], "vote")
    /\ DictHas(r_votes[1], "value")
    /\ r_back = r_votes

-----------------------------------------------------------------------------
(* Properties of Loader.filter_duplicate_votes, checked under SpecLoader *)

KeysOf(votes) == {VoteKey(votes[i]) : i \in DOMAIN votes}

ModifiedOfKey(votes, k) == {votes[i].modified : i \in {j \in DOMAIN votes : VoteKey(votes[j]) = k}}

\* C6: after a call with keep="recent" (keep="first") votes_data holds one
\* record for every (participant_id, statement_id) pair it held before and
\* no other record, and that record has the greatest (least) modified value
\* of the pair's records before the call
C6_Deduplicated ==
    (l_keep \in {"recent", "first"}) =>
        /\ ~l_raised
        /\ KeysOf(votes_data) = KeysOf(l_before)
        /\ \A i, j \in DOMAIN votes_data :
              VoteKey(votes_data[i]) = VoteKey(votes_data[j]) => i = j
        /\ \A i \in DOMAIN votes_data : \E j \in DOMAIN l_before : votes_data[i] = l_before[j]
        /\ \A i \in DOMAIN votes_data :
              \A m \in ModifiedOfKey(l_before, VoteKey(votes_data[i])) :
                 IF l_keep = "recent" THEN votes_data[i].modified >= m
                 ELSE votes_data[i].modified <= m

\* C6 witness: a call with keep="recent" removed an older record of a pair
\* and kept the records of another pair
C6_Witness ==
    /\ l_keep = "recent"
    /\ Len(l_before) = 3
    /\ Len(votes_data) = 2
    /\ \E i, j \in DOMAIN l_before :
          /\ VoteKey(l_before[i]) = VoteKey(l_before[j])
          /\ l_before[i].modified < l_before[j].modified
          /\ i > j


-----------------------------------------------------------------------------
(* Properties of run_clustering, checked under SpecPipe *)

RECURSIVE SumParticipantCounts(_, _)
SumParticipantCounts(centers, n) ==
    IF n = 0 THEN 0
    ELSE centers[n].participant_count + SumParticipantCounts(centers, n - 1)

\* the participant of an input record, in either format
InputParticipant(rec) ==
    IF DictHas(rec, "participant_id") THEN DictGet(rec, "participant_id")
    ELSE DictGet(rec, "voted_by_participant_id")

MaxModified(vs) ==
    CHOOSE m \in {DictGet(vs[i], "modified") : i \in DOMAIN vs} :
        \A i \in DOMAIN vs : DictGet(vs[i], "modified") <= m

\* C3: the participant counts of the centers add up to participants_clustered,
\* and in every center the four tallies of every statement add up to the
\* center's participant count
C3_TalliesAddUp ==
    p_pc = "done" =>
        /\ SumParticipantCounts(result.centers, Len(result.centers))
              = result.participants_clustered
        /\ \A g \in DOMAIN result.centers :
           \A x \in DOMAIN result.centers[g].statements :
              LET st == result.centers[g].statements[x]
              IN  st.agreement_count + st.disagreement_count + st.skip_count
                     + st.unseen_count = result.centers[g].participant_count

\* C3 witness: a result with two centers, one of two participants, in which
\* a statement was agreed with, one disagreed with, one skipped and one not seen
C3_Witness ==
    /\ p_pc = "done"
    /\ Len(result.centers) = 2
    /\ \E g \in DOMAIN result.centers :
          /\ result.centers[g].participant_count >= 1
          /\ \E x \in DOMAIN result.centers[g].statements :
                result.centers[g].statements[x].agreement_count > 0
          /\ \E x \in DOMAIN result.centers[g].statements :
                result.centers[g].statements[x].disagreement_count > 0
          /\ \E x \in DOMAIN result.centers[g].statements :
                result.centers[g].statements[x].skip_count > 0
          /\ \E x \in DOMAIN result.centers[g].statements :
                result.centers[g].statements[x].unseen_count > 0

\* C4 as stated: an empty vote list gives a result with every count 0, no
\* center and no last_vote_at
C4_Original ==
    (p_pc = "done" /\ input_votes = <<>>) =>
        /\ result.participant_count = 0
        /\ result.participants_clustered = 0
        /\ result.vote_count = 0
        /\ result.statement_count = 0
        /\ result.centers = <<>>
        /\ result.last_vote_at = <<>>

\* C7 as stated, for the runs that have at least as many participants as
\* clusters: the centers of the result are one entry for every cluster of
\* the run, named after the cluster, with or without participants
C7_Original ==
    (p_pc = "done" /\ Cardinality(filtered_vote_matrix.index) >= Cardinality(cluster_centers)) =>
        /\ Len(result.centers) = Cardinality(cluster_centers)
        /\ \A cluster_id \in cluster_centers :
              Cardinality({g \in DOMAIN result.centers :
                  result.centers[g].name = DEFAULT_CLUSTER_NAMES[cluster_id + 1]}) = 1

\* C8: with a vote list that is not empty, last_vote_at is the time of the
\* greatest modified value of all the votes given, whoever cast them
C8_LastVoteAt ==
    (p_pc = "done" /\ input_votes # <<>>) =>
        /\ result.last_vote_at[1] * 1000000 + result.last_vote_at[2]
              = MaxModified(input_votes) * 1000
        /\ result.last_vote_at[2] \in 0 .. 999999

\* C8 witness: the last vote was cast by a participant the filter removed,
\* and another participant was kept
C8_Witness ==
    /\ p_pc = "done"
    /\ filtered_vote_matrix.index # {}
    /\ \E i \in DOMAIN input_votes :
          /\ DictGet(input_votes[i], "modified") = MaxModified(input_votes)
          /\ InputParticipant(input_votes[i]) \notin filtered_vote_matrix.index
    /\ \A i \in DOMAIN input_votes :
          DictGet(input_votes[i], "modified") = MaxModified(input_votes)
             => InputParticipant(input_votes[i]) \notin filtered_vote_matrix.index

=============================================================================
